---- MODULE Spec2Model ----
(***************************************************************************)
(* A model of the two programs of the repository:                          *)
(*   bktree/bktree.cc     edit_distance, edit_distance_bound and BkTree    *)
(*   cv/find_corners.c    the peak scan, the line pairing and intersect    *)
(* Each program has its own specification (SpecDist, SpecBuild, SpecTree,  *)
(* SpecCorners); the variables of the other programs stay at their idle    *)
(* value.                                                                  *)
(***************************************************************************)
EXTENDS Integers, Sequences, FiniteSets

VARIABLES
  call,       \* the last call of edit_distance / edit_distance_bound and its result
  words,      \* main's vector<string> words, as far as it has been indexed
  index,      \* the BkTree: an arena of nodes, node 1 the root
  lookup,     \* the last BkTree::query call: word, n, lines printed, *count
  houghmap,   \* the accumulator, sparse: flat index |-> votes (absent: 0)
  scan,       \* find_corners' loop position and return value
  lines,      \* float lines[4][2], as <<angle bin, radius bin>> or Uninit
  line_set,   \* bool line_set[2]
  corners,    \* which entries of the caller's corners[4] have been written
  window      \* the cells the last neighbourhood sweep read and zeroed

vars == <<call, words, index, lookup, houghmap, scan, lines, line_set, corners, window>>

distVars == <<call>>
treeVars == <<words, index, lookup>>
cvVars == <<houghmap, scan, lines, line_set, corners, window>>

Min(a, b) == IF a < b THEN a ELSE b
Max(a, b) == IF a > b THEN a ELSE b
Abs(a) == IF a < 0 THEN 0 - a ELSE a
Range(f) == {f[x] : x \in DOMAIN f}

(***************************************************************************)
(* Bounds of the model.                                                    *)
(***************************************************************************)
MaxStrLen == 3      \* longest string handed to the distance functions
MaxBound == 3       \* largest upper_bound handed to edit_distance_bound
MaxWordLen == 2     \* longest dictionary or query word of the tree
MaxInserts == 2     \* insert calls after the root is made
MaxRadius == 2      \* largest query radius n
Height == 40        \* graymap->h, the number of radius rows
MaxCells == 3       \* non-zero accumulator cells at the start of the scan

Alphabet == {"a", "b"}

RECURSIVE Strings(_)
Strings(n) ==
  IF n = 0 THEN {<<>>}
  ELSE LET shorter == Strings(n - 1)
       IN shorter \cup {Append(s, c) : s \in {t \in shorter : Len(t) = n - 1}, c \in Alphabet}

(***************************************************************************)
(* What an int read before it was ever written can hold.  0 is the value   *)
(* the caller hopes for; the others stand for the rest of int.             *)
(***************************************************************************)
Indeterminate == {0 - 1, 0, 5}

(***************************************************************************)
(* The Levenshtein distance by its defining recurrence (the reference the  *)
(* code is compared with; the code computes it row by row, below).         *)
(***************************************************************************)
RECURSIVE LevAt(_, _, _, _)
LevAt(s, t, i, j) ==
  IF i = 0 THEN j
  ELSE IF j = 0 THEN i
  ELSE Min(LevAt(s, t, i - 1, j - 1) + (IF s[i] = t[j] THEN 0 ELSE 1),
           Min(LevAt(s, t, i - 1, j), LevAt(s, t, i, j - 1)) + 1)

Levenshtein(s, t) == LevAt(s, t, Len(s), Len(t))

(***************************************************************************)
(* bktree.cc: edit_distance and edit_distance_bound.                       *)
(***************************************************************************)

\* int row[n + 1]; for (int i = 1; i <= n; ++i) row[i] = i;
\* row[0] is not written here: it holds whatever the stack held.
InitRow(n, junk) == [x \in 0..n |-> IF x = 0 THEN junk ELSE x]

\* The inner loop over x of one row y (the same lines in both functions).
RECURSIVE InnerLoop(_, _, _, _, _, _)
InnerLoop(row, s1, s2, y, x, previous) ==
  IF x > Len(s2) THEN row
  ELSE LET old_row == row[x]
           new == Min(previous + (IF s1[y] = s2[x] THEN 0 ELSE 1),
                      Min(row[x - 1], row[x]) + 1)
       IN InnerLoop([row EXCEPT ![x] = new], s1, s2, y, x + 1, old_row)

\* for (int y = 1; y <= m; ++y) { row[0] = y; <inner loop> }
RECURSIVE OuterLoop(_, _, _, _)
OuterLoop(row, s1, s2, y) ==
  IF y > Len(s1) THEN row
  ELSE OuterLoop(InnerLoop([row EXCEPT ![0] = y], s1, s2, y, 1, y - 1), s1, s2, y + 1)

\* junk: the indeterminate value row[0] starts with.
edit_distance(s1, s2, junk) ==
  OuterLoop(InitRow(Len(s2), junk), s1, s2, 1)[Len(s2)]

\* best_this_row after the inner loop: the least entry of the row.
RowMin(row) == CHOOSE v \in Range(row) : \A u \in Range(row) : v <= u

RECURSIVE BoundLoop(_, _, _, _, _)
BoundLoop(row, s1, s2, y, upper_bound) ==
  IF y > Len(s1) THEN row[Len(s2)]
  ELSE LET filled == InnerLoop([row EXCEPT ![0] = y], s1, s2, y, 1, y - 1)
       IN IF RowMin(filled) > upper_bound THEN upper_bound + 1
          ELSE BoundLoop(filled, s1, s2, y + 1, upper_bound)

edit_distance_bound(s1, s2, upper_bound, junk) ==
  BoundLoop(InitRow(Len(s2), junk), s1, s2, 1, upper_bound)

\* Every value a call can return, over what row[0] may have held.
edit_distance_outcomes(s1, s2) == {edit_distance(s1, s2, junk) : junk \in Indeterminate}

NoCall == [fn |-> "none", s1 |-> <<>>, s2 |-> <<>>, upper_bound |-> 0, ret |-> 0]

CallEditDistance ==
  /\ call = NoCall
  /\ \E s1 \in Strings(MaxStrLen), s2 \in Strings(MaxStrLen), junk \in Indeterminate :
       call' = [fn |-> "edit_distance", s1 |-> s1, s2 |-> s2, upper_bound |-> 0,
                ret |-> edit_distance(s1, s2, junk)]
  /\ UNCHANGED <<treeVars, cvVars>>

CallEditDistanceBound ==
  /\ call = NoCall
  /\ \E s1 \in Strings(MaxStrLen), s2 \in Strings(MaxStrLen),
        upper_bound \in 0..MaxBound, junk \in Indeterminate :
       call' = [fn |-> "edit_distance_bound", s1 |-> s1, s2 |-> s2,
                upper_bound |-> upper_bound,
                ret |-> edit_distance_bound(s1, s2, upper_bound, junk)]
  /\ UNCHANGED <<treeVars, cvVars>>

(***************************************************************************)
(* bktree.cc: class BkTree.  A node is its value (the word it points to)   *)
(* and its children, a map from a distance to the child's place in the     *)
(* arena; unique_ptr ownership makes the arena a tree.                     *)
(***************************************************************************)
Words == Strings(MaxWordLen)

\* BkTree(const string* value) : value(value) {}
BkTree(value) == [value |-> value, children |-> <<>>]

\* children[d] = make_unique<BkTree>(word), at node cur
Attach(t, cur, d, word) ==
  LET fresh == Len(t) + 1
      kids == t[cur].children
      grown == [c \in DOMAIN kids \cup {d} |-> IF c = d THEN fresh ELSE kids[c]]
  IN Append([t EXCEPT ![cur].children = grown], BkTree(word))

\* A mutation of insert: a word at distance 0 of a node on its path is dropped.
RECURSIVE insertDropsDuplicate(_, _, _)
insertDropsDuplicate(t, cur, word) ==
  UNION {IF d = 0 THEN {t}
         ELSE IF d \notin DOMAIN t[cur].children THEN {Attach(t, cur, d, word)}
         ELSE insertDropsDuplicate(t, t[cur].children[d], word) :
         d \in edit_distance_outcomes(t[cur].value, word)}

\* BkTree::insert at node cur: every tree the call can leave behind (one, unless
\* edit_distance read an indeterminate value on the way down).
RECURSIVE insert(_, _, _)
insert(t, cur, word) ==
  UNION {IF d \notin DOMAIN t[cur].children THEN {Attach(t, cur, d, word)}
         ELSE insert(t, t[cur].children[d], word) :
         d \in edit_distance_outcomes(t[cur].value, word)}

\* The keys of a std::map in iteration order.
RECURSIVE Ascending(_)
Ascending(S) ==
  IF S = {} THEN <<>>
  ELSE LET least == CHOOSE v \in S : \A u \in S : v <= u
       IN <<least>> \o Ascending(S \ {least})

\* BkTree::query at node cur: every (lines printed, nodes counted) the call can
\* produce.  queryEach is its loop from lower_bound(d - n) to upper_bound(d + n).
RECURSIVE query(_, _, _, _)
RECURSIVE queryEach(_, _, _, _)
query(t, cur, word, n) ==
  UNION {LET self == IF d <= n THEN <<t[cur].value>> ELSE <<>>
             kids == t[cur].children
             inRange == {c \in DOMAIN kids : d - n <= c /\ c <= d + n}
             visit == [pos \in 1..Cardinality(inRange) |-> kids[Ascending(inRange)[pos]]]
         IN {[printed |-> self \o r.printed, count |-> 1 + r.count] :
             r \in queryEach(t, visit, word, n)} :
         d \in edit_distance_outcomes(t[cur].value, word)}

queryEach(t, visit, word, n) ==
  IF visit = <<>> THEN {[printed |-> <<>>, count |-> 0]}
  ELSE {[printed |-> a.printed \o b.printed, count |-> a.count + b.count] :
        a \in query(t, Head(visit), word, n),
        b \in queryEach(t, Tail(visit), word, n)}

NoLookup == [done |-> FALSE, word |-> <<>>, n |-> 0, printed |-> <<>>, count |-> 0]

\* main: BkTree index(&words[0]);
Construct ==
  /\ words = <<>>
  /\ \E w \in Words :
       /\ words' = <<w>>
       /\ index' = <<BkTree(w)>>
  /\ UNCHANGED <<lookup, distVars, cvVars>>

\* main: index.insert(&words[i]);
Insert ==
  /\ words # <<>>
  /\ ~lookup.done
  /\ Len(words) <= MaxInserts
  /\ \E w \in Words :
       /\ words' = Append(words, w)
       /\ \E t \in insert(index, 1, w) : index' = t
  /\ UNCHANGED <<lookup, distVars, cvVars>>

\* main: int count = 0; index.query(query, n, &count);
Query ==
  /\ words # <<>>
  /\ ~lookup.done
  /\ \E q \in Words, n \in 0..MaxRadius :
       \E r \in query(index, 1, q, n) :
         lookup' = [done |-> TRUE, word |-> q, n |-> n,
                    printed |-> r.printed, count |-> r.count]
  /\ UNCHANGED <<words, index, distVars, cvVars>>

(***************************************************************************)
(* find_corners.c.  The scan starts from the accumulator as the voting     *)
(* loop left it; the model keeps its non-zero cells only.  An angle is     *)
(* kept as its bin (deg = bin * M_PI / kNumAngles) and a radius as its     *)
(* radius bin (radius = bin * kMaxRadius / (kNumRadii - 1), which grows    *)
(* with the bin), so that the float comparisons of the code become         *)
(* comparisons of bins.                                                    *)
(***************************************************************************)
kNumAngles == 360
kNumRadii == Height
k == 31
BeyondVotes == 1000   \* a value read past the end of the buffer that beats every vote

imin(a, b) == IF a < b THEN a ELSE b
imax(a, b) == IF a > b THEN a ELSE b

Votes(h, f) == IF f \in DOMAIN h THEN h[f] ELSE 0

\* unsigned maxhough = 1; raised to the largest cell
MaxHough(h) ==
  LET all == Range(h) \cup {1}
  IN CHOOSE m \in all : \A v \in all : v <= m

\* houghmap[i] > 75 * maxhough / 100
IsCandidate(h, maxhough, f) == Votes(h, f) > (75 * maxhough) \div 100

\* int aii = ad < 0 ? ad + kNumAngles : ad;
Aii(ad) == IF ad < 0 THEN ad + kNumAngles ELSE ad

\* the <<rd, ad>> the two loops of the sweep around seed (ri, ai) run through
SweepSteps(ri, ai) ==
  {<<rd, ad>> : rd \in imax(ri - k \div 2, 0)..imin(ri + k \div 2, kNumRadii - 1),
                ad \in (ai - k \div 2)..(ai + k \div 2)}

\* houghmap[rd*kNumAngles + aii]
Flat(step) == step[1] * kNumAngles + Aii(step[2])

\* the cells the sweep around seed (ri, ai) reads and zeroes
Touched(ri, ai) == {Flat(step) : step \in SweepSteps(ri, ai)}

InBuffer(f) == 0 <= f /\ f < kNumRadii * kNumAngles

\* What the sweep reads at a step: the cell, or, past the end of the calloc'ed
\* buffer, whatever lies there (hot: the one place holding something large).
ReadAt(h, step, hot) ==
  IF InBuffer(Flat(step)) THEN Votes(h, Flat(step))
  ELSE IF Flat(step) = hot THEN BeyondVotes ELSE 0

Before(p, q) == p[1] < q[1] \/ (p[1] = q[1] /\ p[2] < q[2])

\* best, besta, bestr after the sweep: the seed, unless a cell is strictly
\* larger; then the first of the largest in loop order.
Best(h, ri, ai, hot) ==
  LET seedVotes == Votes(h, ri * kNumAngles + ai)
      larger == {p \in SweepSteps(ri, ai) : ReadAt(h, p, hot) > seedVotes}
  IN IF larger = {} THEN [deg |-> ai, radius |-> ri]
     ELSE LET top == {p \in larger : \A q \in larger : ReadAt(h, q, hot) <= ReadAt(h, p, hot)}
              first == CHOOSE p \in top : \A q \in top : p = q \/ Before(p, q)
          IN [deg |-> Aii(first[2]), radius |-> first[1]]

\* houghmap[rd*kNumAngles + aii] = 0, for every step of the sweep
Zeroed(h, ri, ai) == [f \in DOMAIN h \ Touched(ri, ai) |-> h[f]]

\* The lower bin b of the pairs (b, b + 20) for which, in binary32,
\* fabs(deg - lines[0][0]) comes out below 10 * M_PI / 180.
RoundsBelowTenDegrees ==
  {
   0, 2, 3, 5, 6, 8, 9, 11, 12, 14, 15, 17, 18, 20, 21, 23,
   24, 26, 27, 29, 30, 32, 33, 35, 36, 38, 39, 42, 43, 44, 45, 48,
   49, 50, 51, 54, 55, 56, 57, 60, 61, 65, 66, 67, 71, 72, 73, 77,
   78, 79, 83, 84, 89, 90, 96, 99, 101, 104, 106, 108, 109, 111, 113, 115,
   116, 117, 118, 120, 121, 122, 123, 125, 127, 128, 130, 132, 133, 134, 135, 137,
   139, 140, 142, 144, 145, 146, 147, 149, 150, 151, 152, 154, 156, 157, 158, 159,
   161, 162, 163, 164, 166, 168, 169, 171, 173, 174, 175, 176, 178, 180, 181, 183,
   185, 186, 187, 188, 190, 191, 192, 193, 195, 197, 198, 199, 200, 202, 203, 204,
   205, 207, 209, 212, 213, 216, 217, 218, 221, 222, 223, 226, 227, 228, 230, 231,
   232, 233, 234, 235, 236, 237, 238, 239, 240, 241, 242, 244, 245, 246, 247, 249,
   250, 251, 252, 254, 255, 256, 257, 259, 260, 261, 262, 263, 264, 265, 266, 267,
   268, 269, 270, 271, 273, 274, 275, 276, 278, 279, 280, 281, 283, 284, 285, 286,
   288, 289, 290, 291, 292, 293, 294, 295, 297, 298, 299, 300, 302, 303, 304, 305,
   307, 308, 309, 310, 312, 313, 314, 315, 316, 317, 318, 319, 320, 321, 322, 323,
   324, 326, 327, 328, 329, 331, 332, 333, 334, 336, 337, 338, 339, 341, 342, 343,
   344, 345, 346, 347, 348, 349, 350, 351, 352, 353}

\* fabs(deg - lines[0][0]) < 10 * M_PI / 180, on angle bins
Parallel(a, b) ==
  \/ Abs(a - b) < 20
  \/ Abs(a - b) = 20 /\ imin(a, b) \in RoundsBelowTenDegrees

Unset == [written |-> FALSE, deg |-> 0, radius |-> 0]
Line(peak) == [written |-> TRUE, deg |-> peak.deg, radius |-> peak.radius]

\* The pairing of one peak: lines and line_set after it.
Pair(ls, set, peak) ==
  IF ~set[0] THEN
    [lines |-> [j \in 0..3 |-> IF j < 2 THEN Line(peak) ELSE ls[j]],
     line_set |-> [set EXCEPT ![0] = TRUE]]
  ELSE IF Parallel(peak.deg, ls[0].deg) THEN
    [lines |-> IF peak.radius > ls[1].radius THEN [ls EXCEPT ![1] = Line(peak)] ELSE ls,
     line_set |-> set]
  ELSE IF ~set[1] THEN
    [lines |-> [j \in 0..3 |-> IF j >= 2 THEN Line(peak) ELSE ls[j]],
     line_set |-> [set EXCEPT ![1] = TRUE]]
  ELSE
    [lines |-> IF peak.radius > ls[3].radius THEN [ls EXCEPT ![3] = Line(peak)] ELSE ls,
     line_set |-> set]

\* intersect's return value.  d = sin((b2 - b1) * pi / 360) up to rounding: below
\* 0.0001 in size only when the bins differ by a multiple of 360, and at least
\* 0.0087 otherwise.  With a line that was never written the outcome is junk.
intersect(l1, l2, junk) ==
  IF l1.written /\ l2.written THEN (l1.deg - l2.deg) % kNumAngles # 0 ELSE junk

\* the operands of the four calls, in the order of the return statement
Operands == <<<<0, 2>>, <<0, 3>>, <<1, 2>>, <<1, 3>>>>

\* whether call c of the return statement reads a line that was never written
ReadsUnset(c) == ~lines[Operands[c][1]].written \/ ~lines[Operands[c][2]].written

NoWindow == [swept |-> FALSE, ri |-> 0, ai |-> 0]
NoPeak == [deg |-> 0, radius |-> 0]

\* the least candidate at or after the scan position, or -1
NextSeed ==
  LET ahead == {f \in DOMAIN houghmap : f >= scan.i /\ IsCandidate(houghmap, scan.maxhough, f)}
  IN IF ahead = {} THEN 0 - 1 ELSE CHOOSE f \in ahead : \A g \in ahead : f <= g

\* One candidate of the scan: the sweep of its neighbourhood and the pairing
\* of the peak found.  (The cells the scan passes on the way are not candidates.)
Peak ==
  /\ scan.pc = "scan"
  /\ NextSeed >= 0
  /\ LET ri == NextSeed \div kNumAngles
         ai == NextSeed % kNumAngles
         beyond == {f \in Touched(ri, ai) : ~InBuffer(f)}
     IN \E hot \in beyond \cup {0 - 1} :
          LET peak == Best(houghmap, ri, ai, hot)
              paired == Pair(lines, line_set, peak)
          IN /\ houghmap' = Zeroed(houghmap, ri, ai)
             /\ lines' = paired.lines
             /\ line_set' = paired.line_set
             /\ window' = [swept |-> TRUE, ri |-> ri, ai |-> ai]
             /\ scan' = [scan EXCEPT !.i = NextSeed + 1, !.peaks = @ + 1, !.peak = peak,
                                    !.overrun = @ \/ beyond # {}]
  /\ UNCHANGED <<corners, distVars, treeVars>>

\* The scan is over: the four intersect calls of the return statement.
Return ==
  /\ scan.pc = "scan"
  /\ NextSeed < 0
  /\ \E junk \in {j \in [1..4 -> BOOLEAN] : \A c \in 1..4 : j[c] => ReadsUnset(c)} :
       LET ok == [c \in 1..4 |->
                    intersect(lines[Operands[c][1]], lines[Operands[c][2]], junk[c])]
           called == [c \in 1..4 |-> \A b \in 1..(c - 1) : ok[b]]
       IN /\ corners' = [c \in 1..4 |-> called[c] /\ ok[c]]
          /\ scan' = [scan EXCEPT !.pc = "done",
                                  !.ret = \A c \in 1..4 : ok[c],
                                  !.isect = [c \in 1..4 |->
                                               IF ~called[c] THEN "skipped"
                                               ELSE IF ok[c] THEN "ok" ELSE "failed"]]
  /\ UNCHANGED <<houghmap, lines, line_set, window, distVars, treeVars>>

(***************************************************************************)
(* The specifications.                                                     *)
(***************************************************************************)
IdleScan == [pc |-> "idle", i |-> 0, maxhough |-> 1, ret |-> FALSE,
             isect |-> [c \in 1..4 |-> "none"], peaks |-> 0, peak |-> NoPeak,
             overrun |-> FALSE]

IdleDist == call = NoCall
IdleTree == words = <<>> /\ index = <<>> /\ lookup = NoLookup
IdleCv ==
  /\ houghmap = <<>>
  /\ scan = IdleScan
  /\ lines = [j \in 0..3 |-> Unset]
  /\ line_set = [j \in 0..1 |-> FALSE]
  /\ corners = [c \in 1..4 |-> FALSE]
  /\ window = NoWindow

Init == IdleDist /\ IdleTree /\ IdleCv

\* The distance functions, called on any two strings.
NextDist == CallEditDistance \/ CallEditDistanceBound
SpecDist == Init /\ [][NextDist]_vars

\* The construction of the index.
NextBuild == Construct \/ Insert
SpecBuild == Init /\ [][NextBuild]_vars

\* The construction of the index and a query of it.
NextTree == Construct \/ Insert \/ Query
SpecTree == Init /\ [][NextTree]_vars

\* The accumulators the scan starts from: up to MaxCells cells with votes, on two
\* adjacent rows less than k/2 from the top and on the last row, and on columns
\* at both ends of the angle range and between (0 and 20 are 20 bins apart).
SeedRows == {14, 15, kNumRadii - 1}
SeedCols == {0, 20, 100, 350}
VoteLevels == {60, 80, 100}
Positions == {r * kNumAngles + c : r \in SeedRows, c \in SeedCols}

RECURSIVE SubsetsUpTo(_, _)
SubsetsUpTo(S, n) ==
  IF n = 0 THEN {{}}
  ELSE LET smaller == SubsetsUpTo(S, n - 1)
       IN smaller \cup {T \cup {x} : T \in smaller, x \in S}

Accumulators == UNION {[S -> VoteLevels] : S \in SubsetsUpTo(Positions, MaxCells)}

\* find_corners up to the scan: the accumulator is filled, nothing else is written.
InitCorners ==
  /\ IdleDist /\ IdleTree
  /\ houghmap \in Accumulators
  /\ scan = [IdleScan EXCEPT !.pc = "scan", !.maxhough = MaxHough(houghmap)]
  /\ lines = [j \in 0..3 |-> Unset]
  /\ line_set = [j \in 0..1 |-> FALSE]
  /\ corners = [c \in 1..4 |-> FALSE]
  /\ window = NoWindow

NextCorners == Peak \/ Return
SpecCorners == InitCorners /\ [][NextCorners]_vars

(***************************************************************************)
(* The claims.                                                             *)
(***************************************************************************)
Distinct(seq) == \A i, j \in DOMAIN seq : i # j => seq[i] # seq[j]

\* C1: for a dictionary of distinct words, in any insertion order, the set of
\* words query(q, n) prints is exactly the words within Levenshtein distance n
\* of q.
C1_QueryIsExact ==
  (lookup.done /\ Distinct(words)) =>
    Range(lookup.printed) = {w \in Range(words) : Levenshtein(w, lookup.word) <= lookup.n}

\* C1, on the inputs where edit_distance reads nothing indeterminate (the query
\* word or every dictionary word is non-empty): the same equality.
C1_QueryIsExactOffEmpty ==
  (lookup.done /\ Distinct(words) /\ (lookup.word # <<>> \/ <<>> \notin Range(words))) =>
    Range(lookup.printed) = {w \in Range(words) : Levenshtein(w, lookup.word) <= lookup.n}

\* C2: edit_distance(s, t) is the Levenshtein distance of s and t, for all s and
\* t, empty ones included.
C2_EditDistanceIsLevenshtein ==
  call.fn = "edit_distance" => call.ret = Levenshtein(call.s1, call.s2)

\* C2, when s and t are not both empty: the same equality.
C2_OffEmpty ==
  (call.fn = "edit_distance" /\ (call.s1 # <<>> \/ call.s2 # <<>>)) =>
    call.ret = Levenshtein(call.s1, call.s2)

\* C3: with d the Levenshtein distance of s and t, edit_distance_bound(s, t, k)
\* is d when d <= k and is greater than k when d > k, empty strings included.
C3_BoundContract ==
  call.fn = "edit_distance_bound" =>
    LET d == Levenshtein(call.s1, call.s2)
    IN /\ d <= call.upper_bound => call.ret = d
       /\ d > call.upper_bound => call.ret > call.upper_bound

\* C3, when s and t are not both empty: the same contract.
C3_OffEmpty ==
  (call.fn = "edit_distance_bound" /\ (call.s1 # <<>> \/ call.s2 # <<>>)) =>
    LET d == Levenshtein(call.s1, call.s2)
    IN /\ d <= call.upper_bound => call.ret = d
       /\ d > call.upper_bound => call.ret > call.upper_bound

\* C4: after any sequence of inserts every edge (d, child) has
\* Levenshtein(parent word, child word) = d, and the children of a node hang on
\* pairwise distinct labels.
C4_EdgeLabels ==
  \A p \in DOMAIN index :
    LET kids == index[p].children
    IN /\ \A d \in DOMAIN kids : Levenshtein(index[p].value, index[kids[d]].value) = d
       /\ Cardinality(Range(kids)) = Cardinality(DOMAIN kids)

\* C4, when the empty word was inserted at most once: the same invariant.
C4_EdgeLabelsOffEmpty ==
  Cardinality({i \in DOMAIN words : words[i] = <<>>}) <= 1 =>
    \A p \in DOMAIN index :
      LET kids == index[p].children
      IN /\ \A d \in DOMAIN kids : Levenshtein(index[p].value, index[kids[d]].value) = d
         /\ Cardinality(Range(kids)) = Cardinality(DOMAIN kids)

\* C9 as stated: an insert of a word equal to a pivot on its path makes no node,
\* so the tree has as many nodes as distinct words were inserted (root included).
C9_OneNodePerDistinctWord == Len(index) = Cardinality(Range(words))

\* C9 as amended: every insert, that of a word equal to a pivot on its path
\* included, makes one new node holding the word, so the tree has as many nodes
\* as words were inserted, repeats counted (root included).
C9_OneNodePerInsert ==
  /\ Len(index) = Len(words)
  /\ \A i \in DOMAIN words : index[i].value = words[i]

\* C9's case: a word was inserted again and hangs below the node holding it.
C9_DuplicateAttached ==
  \E p \in DOMAIN index : \E d \in DOMAIN index[p].children :
    index[index[p].children[d]].value = index[p].value

\* C5: find_corners returns true exactly when all four intersect calls succeed,
\* and when it returns false no entry of corners has been written.
C5_AllOrNothing ==
  scan.pc = "done" =>
    /\ scan.ret <=> (\A c \in 1..4 : scan.isect[c] = "ok")
    /\ ~scan.ret => \A c \in 1..4 : ~corners[c]

\* C6: when the scan ends with the second slot never set, find_corners returns
\* false.
C6_OneFamilyFails ==
  (scan.pc = "done" /\ ~line_set[1]) => ~scan.ret

\* C7 (on the runs in which every sweep stayed inside the accumulator): with
\* both slots set, a peak parallel to neither lines[0] nor lines[2] leaves the
\* four lines as they are; so lines[2] and lines[3] are always parallel once set.
C7_StrayPeakDropped ==
  [][(scan'.peaks = scan.peaks + 1 /\ ~scan'.overrun) =>
       /\ (/\ line_set[0] /\ line_set[1]
           /\ ~Parallel(scan'.peak.deg, lines[0].deg)
           /\ ~Parallel(scan'.peak.deg, lines[2].deg)) => lines' = lines
       /\ line_set'[1] => Parallel(lines'[2].deg, lines'[3].deg)]_vars

\* C8: the sweep around a seed (ri, ai) touches exactly the cells
\* (rd, (ai + da) mod 360), rd from max(ri - 15, 0) to min(ri + 15, R - 1), da from
\* -15 to 15, all of them inside the accumulator.
C8_SweepWrapsBothEnds ==
  window.swept =>
    /\ Touched(window.ri, window.ai) =
         {rd * kNumAngles + ((window.ai + da) % kNumAngles) :
            rd \in Max(window.ri - 15, 0)..Min(window.ri + 15, kNumRadii - 1),
            da \in (0 - 15)..15}
    /\ \A f \in Touched(window.ri, window.ai) : InBuffer(f)

\* C10 (on the runs in which every sweep stayed inside the accumulator): once
\* both slots are set, the four pairs intersected have distinct angle bins and
\* find_corners does not fail.
C10_NoDegenerateFailure ==
  (line_set[0] /\ line_set[1] /\ ~scan.overrun) =>
    /\ \A c \in 1..4 : lines[Operands[c][1]].deg # lines[Operands[c][2]].deg
    /\ scan.pc = "done" => scan.ret

\* C10's account of the bins: all below 360, lines[1] fewer than 20 bins from
\* lines[0], lines[2] and lines[3] at least 20 bins from lines[0].
C10_BinDistances ==
  (line_set[0] /\ line_set[1] /\ ~scan.overrun) =>
    /\ \A j \in 0..3 : lines[j].deg \in 0..(kNumAngles - 1)
    /\ Abs(lines[1].deg - lines[0].deg) < 20
    /\ Abs(lines[2].deg - lines[0].deg) >= 20
    /\ Abs(lines[3].deg - lines[0].deg) >= 20

====
